---------------------------- MODULE Spec2Model ----------------------------
(***************************************************************************)
(* A model of the Invorto Python client (sdk/python/src/invorto/client.py):*)
(* the pydantic parameter and entity classes, the request encoding of the  *)
(* facade operations, _make_request, the decoding of responses, the batch  *)
(* helpers, the executor based _async variants, format_phone_number and    *)
(* the context manager.                                                    *)
(*                                                                         *)
(* Values of fields are strings; None is the string "None".  A pydantic    *)
(* object and a dict are functions from key names to values.               *)
(***************************************************************************)
EXTENDS Integers, Sequences, FiniteSets, TLC

VARIABLES
    client,     \* InvortoClient: api_key, base_url, tenant_id, headers, session
    \* one facade invocation
    pc,         \* position of the facade invocation in progress
    inv,        \* the invocation: operation, argument, blocking or _async
    request,    \* the request handed to session.request by the invocation
    nreq,       \* number of requests the invocation has issued
    response,   \* what session.request got back
    outcome,    \* what the invocation returned or raised
    future,     \* the pending result of an _async invocation
    \* create_multiple_agents / create_multiple_calls
    bpc,        \* position in the batch helper
    bkind,      \* "agents" or "calls"
    bitems,     \* the input list
    bidx,       \* index of the element the loop is at
    bresults,   \* the list the loop appends to
    blog,       \* every request issued so far, in order
    bserver,    \* the elements whose resource exists on the server
    bresp,      \* the responses to the creates so far, in order
    bout,       \* what the helper returned or raised
    \* two concurrent get_call_async calls
    task,       \* per call: the coroutine's position
    call_ids,   \* per call: its call ID
    runner,     \* per call: the thread running self.get_call
    job,        \* per call: position of self.get_call
    aresp,      \* per call: the response to its request
    stalled,    \* per call: its request never gets an answer
    afuture,    \* per call: the pending result the coroutine awaits
    loop_busy,  \* the call whose blocking work the event loop thread is stuck in, 0 if none
    finished,   \* the calls in the order in which they completed
    \* format_phone_number
    ppc, phone_number, country_code, formatted,
    \* with client: ...
    spc,        \* position relative to the with block
    sops,       \* number of operations completed inside the block
    slast,      \* the last operation run in the block, with its response and result
    spath,      \* how the block was left: "normal", "return" or "exception"
    sexc,       \* the exception that left the block, "none" if none
    sprop       \* the exception that reached the caller of the with statement

facadeVars == <<pc, inv, request, nreq, response, outcome, future>>
batchVars == <<bpc, bkind, bitems, bidx, bresults, blog, bserver, bresp, bout>>
aioVars == <<task, call_ids, runner, job, aresp, stalled, afuture, loop_busy, finished>>
phoneVars == <<ppc, phone_number, country_code, formatted>>
scopeVars == <<spc, sops, slast, spath, sexc, sprop>>
vars == <<client, facadeVars, batchVars, aioVars, phoneVars, scopeVars>>

None == "None"

\* Python truthiness of an Optional[str]
Truthy(v) == v # None /\ v # ""

\* Python truthiness of an Optional[Dict]: None and the empty dict are falsy
TruthyDict(v) == v # None /\ v # "{}"

\* An Optional[BaseModel] argument: <<>> is None, <<m>> is the object m
NoOptions == <<>>

EmptyDict == [k \in {} |-> None]

DictSet(d, k, v) == [x \in DOMAIN d \cup {k} |-> IF x = k THEN v ELSE d[x]]

DictPop(d, k) == [x \in DOMAIN d \ {k} |-> d[x]]

---------------------------------------------------------------------------
(* Entity model: the declared defaults of the optional fields.             *)

AgentConfigRequired == {"name", "prompt"}

AgentConfigDefaults ==
    [voice |-> None, locale |-> "en-IN", temperature |-> "0.7",
     model |-> "gpt-4o-mini", max_tokens |-> "1000", system_prompt |-> None,
     tools |-> None, metadata |-> None]

\* A variant whose sort_order has no default
ListOptionsDefaultsNoSort ==
    [page |-> "1", limit |-> "50", search |-> None, status |-> None,
     sort_by |-> None, sort_order |-> None]

ListOptionsDefaults ==
    [page |-> "1", limit |-> "50", search |-> None, status |-> None,
     sort_by |-> None, sort_order |-> "desc"]

\* class CallListOptions(ListOptions): the inherited fields and three more
CallListOptionsDefaults ==
    ListOptionsDefaults @@ [agent_id |-> None, from_ |-> None, to |-> None]

\* BaseModel(**kwargs): the given fields, the declared default for the rest
Construct(defaults, kwargs) ==
    [f \in DOMAIN defaults \cup DOMAIN kwargs |->
        IF f \in DOMAIN kwargs THEN kwargs[f] ELSE defaults[f]]

\* The parameter objects a caller can build.
AgentConfigs ==
    [name : {"bot"}, prompt : {"hello"}, voice : {None, "asha"},
     locale : {None, "en-IN", "hi-IN"}, temperature : {None, "0.7"},
     model : {None, "gpt-4o-mini"}, max_tokens : {None, "1000"},
     system_prompt : {None}, tools : {None},
     metadata : {None, "{}"}]

CallOptionsSet ==
    [agent_id : {"a1"}, to : {"+912"}, from_ : {None, "", "+911"},
     direction : {"inbound", "outbound"}, metadata : {None, "{}"},
     recording : {None, "true"}, transcription : {None, "true", "false"}]

ListOptionsSet ==
    [page : {None, "1", "2"}, limit : {None, "50"}, search : {None, "bot"},
     status : {None, "active"}, sort_by : {None, "name"},
     sort_order : {None, "desc", "asc"}]

CallListOptionsSet ==
    { Construct(CallListOptionsDefaults, kw) :
        kw \in [page : {"1", "2"}, limit : {None, "50"}, sort_order : {"desc", None},
                agent_id : {None, "a1"}, from_ : {None, "", "+911"},
                to : {None, "+912"}] }

Ids == {"x1", "x2"}

---------------------------------------------------------------------------
(* Request Encoder                                                         *)

\* BaseModel.model_dump(exclude_none=...): keyed by field name (by_alias is
\* left at its default, False)
\* A variant that ignores exclude_none
model_dump_keep_none(m, exclude_none) == m

model_dump(m, exclude_none) ==
    LET keep == {f \in DOMAIN m : ~exclude_none \/ m[f] # None}
    IN  [f \in keep |-> m[f]]

\* create_call's body
create_call_data(options) ==
    LET call_data == model_dump(options, TRUE)
    IN  IF Truthy(options.from_)
        THEN DictSet(call_data, "from", options.from_)
        ELSE call_data

\* list_calls' query parameters
list_calls_params(options) ==
    LET o == IF options = NoOptions
             THEN Construct(CallListOptionsDefaults, EmptyDict)
             ELSE options[1]
        params == model_dump(o, TRUE)
    IN  IF "from_" \in DOMAIN params
        THEN DictSet(DictPop(params, "from_"), "from", params["from_"])
        ELSE params

\* list_agents' query parameters
list_agents_params(options) ==
    LET o == IF options = NoOptions
             THEN Construct(ListOptionsDefaults, EmptyDict)
             ELSE options[1]
    IN  model_dump(o, TRUE)

\* update_call_status' body
update_call_status_data(status, metadata) ==
    IF TruthyDict(metadata)
    THEN [status |-> status, metadata |-> metadata]
    ELSE [status |-> status]

---------------------------------------------------------------------------
(* Transport Invoker and Response Decoder                                  *)

\* What session.request can come back with: a network failure, or a status
\* and a body.  Body kinds: not JSON; a JSON array; the JSON object {}; a
\* JSON object well formed for the entity the operation decodes ("entity",
\* with the config it carries when the entity is an Agent).
Statuses == {200, 201, 304, 404, 500}

BodyKinds == {"notjson", "array", "empty", "entity"}

NoResponse == [net |-> "none", status |-> 0, body |-> [kind |-> "none", config |-> EmptyDict]]

NetworkFailure == [net |-> "error", status |-> 0, body |-> [kind |-> "none", config |-> EmptyDict]]

\* The config of an agent that already exists on the server
ServerAgentConfig == [name |-> "bot", prompt |-> "hello", locale |-> "hi-IN"]

Raised(exc) == [kind |-> "raised", exc |-> exc, entity |-> "none", config |-> EmptyDict]

Returned(entity, config) == [kind |-> "returned", exc |-> "none", entity |-> entity, config |-> config]

\* Response.raise_for_status(): HTTPError for a 4xx or 5xx status
raise_for_status(status) == 400 <= status /\ status < 600

\* _make_request: the parsed JSON of the response, or the exception raised
make_request(resp) ==
    IF resp.net = "error" THEN [kind |-> "raised", exc |-> "ConnectionError", data |-> resp.body]
    ELSE IF raise_for_status(resp.status)
         THEN [kind |-> "raised", exc |-> "HTTPError", data |-> resp.body]
    ELSE IF resp.body.kind = "notjson"
         THEN [kind |-> "raised", exc |-> "JSONDecodeError", data |-> resp.body]
    ELSE [kind |-> "returned", exc |-> "none", data |-> resp.body]

\* The entity each facade operation decodes its response into
EntityOf ==
    [create_agent |-> "Agent", get_agent |-> "Agent", list_agents |-> "PaginatedResponse",
     update_agent |-> "Agent", delete_agent |-> "raw", create_call |-> "raw",
     get_call |-> "Call", list_calls |-> "PaginatedResponse",
     update_call_status |-> "Call", get_call_timeline |-> "TimelineList",
     get_call_artifacts |-> "CallArtifacts", get_tenant_usage |-> "TenantUsage",
     get_call_analytics |-> "CallAnalytics", health_check |-> "raw",
     get_metrics |-> "text"]

Operations == DOMAIN EntityOf

\* The classes built with Entity(**data)
TypedEntities == {"Agent", "Call", "PaginatedResponse", "CallArtifacts",
                  "TenantUsage", "CallAnalytics"}

\* Entity classes with at least one field without a default
HasRequiredField(entity) == entity # "CallArtifacts"

\* A variant that leaves a missing field absent instead of taking its default
AgentConfigDecodeNoDefaults(config) ==
    [f \in DOMAIN AgentConfigDefaults \cup DOMAIN config |->
        IF f \in DOMAIN config THEN config[f] ELSE None]

\* AgentConfig built from the config mapping of a decoded Agent
AgentConfigDecode(config) == Construct(AgentConfigDefaults, config)

\* Entity(**data) on the parsed JSON
EntityDecode(entity, data) ==
    IF data.kind = "array" THEN Raised("TypeError")
    ELSE IF data.kind = "empty" /\ HasRequiredField(entity) THEN Raised("ValidationError")
    ELSE IF entity = "Agent" /\ data.kind = "entity"
         THEN IF AgentConfigRequired \subseteq DOMAIN data.config
              THEN Returned(entity, AgentConfigDecode(data.config))
              ELSE Raised("ValidationError")
    ELSE Returned(entity, EmptyDict)

\* get_call_timeline: [TimelineEvent(**e) for e in data.get("timeline", [])]
TimelineDecode(data) ==
    IF data.kind = "array" THEN Raised("AttributeError")
    ELSE Returned("TimelineList", EmptyDict)

\* What a facade operation returns or raises, given what session.request got
FacadeResult(op, resp) ==
    IF op = "get_metrics"
    THEN IF resp.net = "error" THEN Raised("ConnectionError")
         ELSE IF raise_for_status(resp.status) THEN Raised("HTTPError")
         ELSE Returned("text", EmptyDict)
    ELSE LET r == make_request(resp)
         IN  IF r.kind = "raised" THEN Raised(r.exc)
             ELSE IF EntityOf[op] = "raw" THEN Returned("raw", EmptyDict)
             ELSE IF EntityOf[op] = "TimelineList" THEN TimelineDecode(r.data)
             ELSE EntityDecode(EntityOf[op], r.data)

---------------------------------------------------------------------------
(* The client and one facade invocation at a time                          *)

\* str.rstrip("/") on a URL given as a sequence of tokens
RECURSIVE rstrip_slash(_)
rstrip_slash(u) ==
    IF u # <<>> /\ u[Len(u)] = "/" THEN rstrip_slash(SubSeq(u, 1, Len(u) - 1)) ELSE u

\* InvortoClient.__init__
NewClient(api_key, base_url, tenant_id) ==
    LET h == [k \in {"Authorization", "Content-Type"} |->
                 IF k = "Authorization" THEN <<"Bearer", api_key>>
                 ELSE <<"application/json">>]
    IN  [api_key |-> api_key, base_url |-> rstrip_slash(base_url), tenant_id |-> tenant_id,
         headers |-> IF Truthy(tenant_id) THEN DictSet(h, "x-tenant-id", <<tenant_id>>) ELSE h,
         session |-> "open"]

NoInvocation == [op |-> "none", arg |-> None, mode |-> "none", before |-> None]

NoRequest == [method |-> "none", url |-> <<>>, kind |-> "none", payload |-> EmptyDict,
              headers |-> EmptyDict]

NoOutcome == [kind |-> "none", exc |-> "none", entity |-> "none", config |-> EmptyDict]

Modes == {"blocking", "async"}

FacadeInit ==
    /\ pc = "idle"
    /\ inv = NoInvocation
    /\ request = NoRequest
    /\ nreq = 0
    /\ response = NoResponse
    /\ outcome = NoOutcome
    /\ future = "none"

\* The call of a facade operation up to session.request(method, url, **kwargs);
\* an _async variant runs the same call through loop.run_in_executor.
Invoke(op, arg, mode, method, path, kind, payload) ==
    /\ pc = "idle"
    /\ client.session = "open"
    /\ inv' = [op |-> op, arg |-> arg, mode |-> mode, before |-> client]
    /\ request' = [method |-> method, url |-> client.base_url \o path, kind |-> kind,
                   payload |-> payload, headers |-> client.headers]
    /\ nreq' = 1
    /\ response' = NoResponse
    /\ outcome' = NoOutcome
    /\ future' = IF mode = "async" THEN "pending" ELSE "none"
    /\ pc' = "sent"
    /\ UNCHANGED <<client, batchVars, aioVars, phoneVars, scopeVars>>

create_agent(config, mode) ==
    Invoke("create_agent", config, mode, "POST", <<"v1", "agents">>, "json",
           model_dump(config, TRUE))

get_agent(agent_id, mode) ==
    Invoke("get_agent", agent_id, mode, "GET", <<"v1", "agents", agent_id>>, "none", EmptyDict)

list_agents(options, mode) ==
    Invoke("list_agents", options, mode, "GET", <<"v1", "agents">>, "params",
           list_agents_params(options))

update_agent(agent_id, updates, mode) ==
    Invoke("update_agent", agent_id, mode, "PATCH", <<"v1", "agents", agent_id>>, "json", updates)

delete_agent(agent_id, mode) ==
    Invoke("delete_agent", agent_id, mode, "DELETE", <<"v1", "agents", agent_id>>, "none",
           EmptyDict)

create_call(options, mode) ==
    Invoke("create_call", options, mode, "POST", <<"v1", "calls">>, "json",
           create_call_data(options))

get_call(call_id, mode) ==
    Invoke("get_call", call_id, mode, "GET", <<"v1", "calls", call_id>>, "none", EmptyDict)

list_calls(options, mode) ==
    Invoke("list_calls", options, mode, "GET", <<"v1", "calls">>, "params",
           list_calls_params(options))

update_call_status(call_id, status, metadata, mode) ==
    Invoke("update_call_status", call_id, mode, "PATCH",
           <<"v1", "calls", call_id, "status">>, "json",
           update_call_status_data(status, metadata))

get_call_timeline(call_id, mode) ==
    Invoke("get_call_timeline", call_id, mode, "GET",
           <<"v1", "calls", call_id, "timeline">>, "none", EmptyDict)

get_call_artifacts(call_id, mode) ==
    Invoke("get_call_artifacts", call_id, mode, "GET",
           <<"v1", "calls", call_id, "artifacts">>, "none", EmptyDict)

get_tenant_usage(tenant_id, period, mode) ==
    Invoke("get_tenant_usage", tenant_id, mode, "GET",
           <<"v1", "tenants", tenant_id, "usage">>, "params", [period |-> period])

get_call_analytics(call_id, mode) ==
    Invoke("get_call_analytics", call_id, mode, "GET",
           <<"v1", "realtime", call_id, "stats">>, "none", EmptyDict)

health_check(mode) ==
    Invoke("health_check", None, mode, "GET", <<"health">>, "none", EmptyDict)

get_metrics(mode) ==
    Invoke("get_metrics", None, mode, "GET", <<"metrics">>, "none", EmptyDict)

\* The bodies the server can answer the pending request with
ResponseBodies(op, payload) ==
    LET config == IF op = "create_agent" THEN payload
                  ELSE IF EntityOf[op] = "Agent" THEN ServerAgentConfig
                  ELSE EmptyDict
    IN  {[kind |-> k, config |-> IF k = "entity" THEN config ELSE EmptyDict] : k \in BodyKinds}
        \cup (IF op = "create_agent"
              THEN {[kind |-> "entity", config |-> DictSet(config, "locale", "en-US")]}
              ELSE {})

\* Everything session.request can get back for a request
Responses(op, payload) ==
    {NetworkFailure} \cup
    {[net |-> "ok", status |-> st, body |-> b] :
        st \in Statuses, b \in ResponseBodies(op, payload)}

\* session.request: the exchange with the remote service
session_request ==
    /\ pc = "sent"
    /\ \E r \in Responses(inv.op, request.payload) : response' = r
    /\ pc' = "responded"
    /\ UNCHANGED <<client, inv, request, nreq, outcome, future>>
    /\ UNCHANGED <<batchVars, aioVars, phoneVars, scopeVars>>

\* A variant that issues the request again after a failure
facade_return_retry ==
    /\ pc = "responded"
    /\ IF FacadeResult(inv.op, response).kind = "raised" /\ nreq < 2
       THEN /\ nreq' = nreq + 1
            /\ pc' = "sent"
            /\ UNCHANGED <<outcome, future>>
       ELSE /\ outcome' = FacadeResult(inv.op, response)
            /\ future' = future
            /\ pc' = "done"
            /\ nreq' = nreq
    /\ UNCHANGED <<client, inv, request, response>>
    /\ UNCHANGED <<batchVars, aioVars, phoneVars, scopeVars>>

\* The rest of the operation after session.request: raise_for_status, json(),
\* the decoding; the result is returned or raised to the caller, or posted to
\* the future of run_in_executor.
facade_return ==
    /\ pc = "responded"
    /\ outcome' = FacadeResult(inv.op, response)
    /\ future' = IF inv.mode = "async"
                 THEN IF outcome'.kind = "raised" THEN "rejected" ELSE "resolved"
                 ELSE future
    /\ pc' = "done"
    /\ UNCHANGED <<client, inv, request, nreq, response>>
    /\ UNCHANGED <<batchVars, aioVars, phoneVars, scopeVars>>

\* The caller takes the result (or the exception) and goes on to its next call
caller_continue ==
    /\ pc = "done"
    /\ pc' = "idle"
    /\ inv' = NoInvocation
    /\ request' = NoRequest
    /\ nreq' = 0
    /\ response' = NoResponse
    /\ outcome' = NoOutcome
    /\ future' = "none"
    /\ UNCHANGED <<client, batchVars, aioVars, phoneVars, scopeVars>>

---------------------------------------------------------------------------
(* Batch helpers                                                           *)

MaxBatch == 3

NoBatchOutcome == [kind |-> "none", exc |-> "none", value |-> <<>>]

BatchInit ==
    /\ bpc = "idle"
    /\ bkind = "none"
    /\ bitems = <<>>
    /\ bidx = 0
    /\ bresults = <<>>
    /\ blog = <<>>
    /\ bserver = {}
    /\ bresp = <<>>
    /\ bout = NoBatchOutcome

\* The facade operation a batch helper calls for each element
BatchOp(kind) == IF kind = "agents" THEN "create_agent" ELSE "create_call"

BatchUrl(kind) == client.base_url \o <<"v1", kind>>

BatchPayload(kind, item) ==
    IF kind = "agents" THEN model_dump(item, TRUE) ELSE create_call_data(item)

\* create_multiple_agents up to the for statement
create_multiple_agents(configs) ==
    /\ bpc = "idle"
    /\ bkind' = "agents"
    /\ bitems' = configs
    /\ bidx' = 1
    /\ bresults' = <<>>
    /\ bpc' = "loop"
    /\ UNCHANGED <<blog, bserver, bresp, bout>>
    /\ UNCHANGED <<client, facadeVars, aioVars, phoneVars, scopeVars>>

\* create_multiple_calls up to the for statement
create_multiple_calls(call_options) ==
    /\ bpc = "idle"
    /\ bkind' = "calls"
    /\ bitems' = call_options
    /\ bidx' = 1
    /\ bresults' = <<>>
    /\ bpc' = "loop"
    /\ UNCHANGED <<blog, bserver, bresp, bout>>
    /\ UNCHANGED <<client, facadeVars, aioVars, phoneVars, scopeVars>>

\* The for statement takes the next element and calls create_agent or
\* create_call on it, which sends its request
batch_create ==
    /\ bpc = "loop"
    /\ bidx <= Len(bitems)
    /\ blog' = Append(blog, [method |-> "POST", url |-> BatchUrl(bkind),
                             payload |-> BatchPayload(bkind, bitems[bidx]), elem |-> bidx])
    /\ bpc' = "waiting"
    /\ UNCHANGED <<bkind, bitems, bidx, bresults, bserver, bresp, bout>>
    /\ UNCHANGED <<client, facadeVars, aioVars, phoneVars, scopeVars>>

\* The remote service answers the create; a 2xx answer means the resource
\* now exists on the server
batch_session_request ==
    /\ bpc = "waiting"
    /\ \E r \in Responses(BatchOp(bkind), blog[Len(blog)].payload) :
          /\ bresp' = Append(bresp, r)
          /\ bserver' = IF r.net = "ok" /\ 200 <= r.status /\ r.status < 300
                        THEN bserver \cup {bidx} ELSE bserver
    /\ bpc' = "responded"
    /\ UNCHANGED <<bkind, bitems, bidx, bresults, blog, bout>>
    /\ UNCHANGED <<client, facadeVars, aioVars, phoneVars, scopeVars>>

\* A variant that skips an element whose create failed and goes on
batch_create_return_skip_failed ==
    /\ bpc = "responded"
    /\ LET r == FacadeResult(BatchOp(bkind), bresp[Len(bresp)])
       IN  /\ bresults' = IF r.kind = "raised" THEN bresults ELSE Append(bresults, r)
           /\ bidx' = bidx + 1
           /\ bpc' = "loop"
           /\ bout' = bout
    /\ UNCHANGED <<bkind, bitems, blog, bserver, bresp>>
    /\ UNCHANGED <<client, facadeVars, aioVars, phoneVars, scopeVars>>

\* create_agent or create_call returns into the loop, which appends the
\* result, or raises, which leaves the helper
batch_create_return ==
    /\ bpc = "responded"
    /\ LET r == FacadeResult(BatchOp(bkind), bresp[Len(bresp)])
       IN  IF r.kind = "raised"
           THEN /\ bout' = [kind |-> "raised", exc |-> r.exc, value |-> <<>>]
                /\ bpc' = "raised"
                /\ UNCHANGED <<bresults, bidx>>
           ELSE /\ bresults' = Append(bresults, r)
                /\ bidx' = bidx + 1
                /\ bpc' = "loop"
                /\ bout' = bout
    /\ UNCHANGED <<bkind, bitems, blog, bserver, bresp>>
    /\ UNCHANGED <<client, facadeVars, aioVars, phoneVars, scopeVars>>

\* The loop is over: return the list
batch_return ==
    /\ bpc = "loop"
    /\ bidx > Len(bitems)
    /\ bout' = [kind |-> "returned", exc |-> "none", value |-> bresults]
    /\ bpc' = "returned"
    /\ UNCHANGED <<bkind, bitems, bidx, bresults, blog, bserver, bresp>>
    /\ UNCHANGED <<client, facadeVars, aioVars, phoneVars, scopeVars>>

\* Lists of at most MaxBatch elements
ListsOf(S) == UNION {[1..n -> S] : n \in 0..MaxBatch}

BatchConfigs ==
    {c \in AgentConfigs : /\ c.voice = None /\ c.metadata = None /\ c.model = None
                          /\ c.max_tokens = None /\ c.temperature = None
                          /\ c.locale \in {None, "hi-IN"}}

BatchCallOptions ==
    {o \in CallOptionsSet : /\ o.metadata = None /\ o.recording = None
                            /\ o.transcription = None /\ o.direction = "outbound"
                            /\ o.from_ \in {None, "+911"}}

---------------------------------------------------------------------------
(* Two concurrent get_call_async calls on one AsyncInvortoClient           *)

Tasks == {1, 2}

CallIds == {"c1", "c2", "c3"}

\* The default executor of the event loop is a ThreadPoolExecutor of
\* min(32, cpu_count + 4) threads
CpuCount == 1

max_workers == IF CpuCount + 4 < 32 THEN CpuCount + 4 ELSE 32

\* Threads: the event loop's, and the executor's workers
NoThread == <<"none">>
LoopThread == <<"loop">>
Workers == {<<"worker", n>> : n \in 1..max_workers}

NoJob == [pc |-> "none", url |-> <<>>]

NoFuture == [state |-> "none", outcome |-> NoOutcome, call |-> None]

AioInit ==
    /\ task = [i \in Tasks |-> "new"]
    /\ call_ids = [i \in Tasks |-> None]
    /\ runner = [i \in Tasks |-> NoThread]
    /\ job = [i \in Tasks |-> NoJob]
    /\ aresp = [i \in Tasks |-> [resp |-> NoResponse, call |-> None]]
    /\ stalled = [i \in Tasks |-> FALSE]
    /\ afuture = [i \in Tasks |-> NoFuture]
    /\ loop_busy = 0
    /\ finished = <<>>

\* A variant that calls self.get_call in the coroutine itself, on the event
\* loop's thread
get_call_async_on_loop(i, id) ==
    /\ task[i] = "new"
    /\ loop_busy = 0
    /\ \A j \in Tasks \ {i} : call_ids[j] # id
    /\ call_ids' = [call_ids EXCEPT ![i] = id]
    /\ afuture' = [afuture EXCEPT ![i].state = "pending"]
    /\ job' = [job EXCEPT ![i].pc = "running"]
    /\ runner' = [runner EXCEPT ![i] = LoopThread]
    /\ loop_busy' = i
    /\ task' = [task EXCEPT ![i] = "awaiting"]
    /\ UNCHANGED <<aresp, stalled, finished>>
    /\ UNCHANGED <<client, facadeVars, batchVars, phoneVars, scopeVars>>

\* get_call_async: the event loop runs the coroutine up to its await:
\* loop.run_in_executor(None, self.get_call, call_id) submits the call to the
\* executor and the coroutine is suspended on the future
get_call_async(i, id) ==
    /\ task[i] = "new"
    /\ loop_busy = 0
    /\ \A j \in Tasks \ {i} : call_ids[j] # id
    /\ call_ids' = [call_ids EXCEPT ![i] = id]
    /\ afuture' = [afuture EXCEPT ![i].state = "pending"]
    /\ job' = [job EXCEPT ![i].pc = "queued"]
    /\ task' = [task EXCEPT ![i] = "awaiting"]
    /\ UNCHANGED <<runner, aresp, stalled, loop_busy, finished>>
    /\ UNCHANGED <<client, facadeVars, batchVars, phoneVars, scopeVars>>

IdleWorkers == {w \in Workers : \A i \in Tasks : runner[i] # w}

\* An idle worker thread of the executor takes the submitted call
executor_start(i) ==
    /\ job[i].pc = "queued"
    /\ IdleWorkers # {}
    /\ runner' = [runner EXCEPT ![i] = CHOOSE w \in IdleWorkers : \A v \in IdleWorkers : w[2] <= v[2]]
    /\ job' = [job EXCEPT ![i].pc = "running"]
    /\ UNCHANGED <<task, call_ids, aresp, stalled, afuture, loop_busy, finished>>
    /\ UNCHANGED <<client, facadeVars, batchVars, phoneVars, scopeVars>>

\* get_call on its thread, up to session.request("GET", /v1/calls/{call_id})
get_call_send(i) ==
    /\ job[i].pc = "running"
    /\ client.session = "open"
    /\ job' = [job EXCEPT ![i] = [pc |-> "sent",
                                  url |-> client.base_url \o <<"v1", "calls", call_ids[i]>>]]
    /\ UNCHANGED <<task, call_ids, runner, aresp, stalled, afuture, loop_busy, finished>>
    /\ UNCHANGED <<client, facadeVars, batchVars, phoneVars, scopeVars>>

\* The remote service answers the request of call i, about the call its URL names
remote_respond(i) ==
    /\ job[i].pc = "sent"
    /\ ~stalled[i]
    /\ \E r \in Responses("get_call", EmptyDict) :
          aresp' = [aresp EXCEPT ![i] = [resp |-> r, call |-> job[i].url[Len(job[i].url)]]]
    /\ job' = [job EXCEPT ![i].pc = "responded"]
    /\ UNCHANGED <<task, call_ids, runner, stalled, afuture, loop_busy, finished>>
    /\ UNCHANGED <<client, facadeVars, batchVars, phoneVars, scopeVars>>

\* The request of call i stalls: no answer will ever come
remote_stall(i) ==
    /\ job[i].pc = "sent"
    /\ ~stalled[i]
    /\ stalled' = [stalled EXCEPT ![i] = TRUE]
    /\ UNCHANGED <<task, call_ids, runner, job, aresp, afuture, loop_busy, finished>>
    /\ UNCHANGED <<client, facadeVars, batchVars, phoneVars, scopeVars>>

\* get_call returns or raises on its thread; the executor posts the result
\* or the exception to the future of the call
get_call_return(i) ==
    /\ job[i].pc = "responded"
    /\ LET r == FacadeResult("get_call", aresp[i].resp)
       IN  afuture' = [afuture EXCEPT ![i] =
                          [state |-> IF r.kind = "raised" THEN "rejected" ELSE "resolved",
                           outcome |-> r, call |-> aresp[i].call]]
    /\ job' = [job EXCEPT ![i].pc = "finished"]
    /\ runner' = [runner EXCEPT ![i] = NoThread]
    /\ loop_busy' = IF runner[i] = LoopThread THEN 0 ELSE loop_busy
    /\ UNCHANGED <<task, call_ids, aresp, stalled, finished>>
    /\ UNCHANGED <<client, facadeVars, batchVars, phoneVars, scopeVars>>

\* The event loop resumes the coroutine whose future is done
coroutine_resume(i) ==
    /\ task[i] = "awaiting"
    /\ afuture[i].state \in {"resolved", "rejected"}
    /\ loop_busy = 0
    /\ task' = [task EXCEPT ![i] = "done"]
    /\ finished' = Append(finished, i)
    /\ UNCHANGED <<call_ids, runner, job, aresp, stalled, afuture, loop_busy>>
    /\ UNCHANGED <<client, facadeVars, batchVars, phoneVars, scopeVars>>

---------------------------------------------------------------------------
(* format_phone_number                                                     *)

\* A string is a sequence of one-character strings.
Separators == {" ", "-", "(", ")"}

Digits == {"0", "1", "2", "3", "4", "5", "6", "7", "8", "9"}

IsSeparator(c) == c \in Separators

\* re.sub(r'[\s\-\(\)]', '', s)
strip_separators(s) == SelectSeq(s, LAMBDA c : ~IsSeparator(c))

\* str.startswith
startswith(s, prefix) ==
    Len(s) >= Len(prefix) /\ SubSeq(s, 1, Len(prefix)) = prefix

\* format_phone_number(phone_number, country_code)
FormatPhone(number, cc) ==
    LET cleaned == strip_separators(number)
    IN  IF startswith(cleaned, <<"+">>) THEN cleaned
        ELSE IF startswith(cleaned, <<"0">>) THEN cc \o SubSeq(cleaned, 2, Len(cleaned))
        ELSE IF startswith(cleaned, <<"9", "1">>) /\ Len(cleaned) = 12 THEN <<"+">> \o cleaned
        ELSE IF Len(cleaned) = 10 THEN cc \o cleaned
        ELSE number

PhoneInit ==
    /\ ppc = "idle"
    /\ phone_number = <<>>
    /\ country_code = <<>>
    /\ formatted = <<>>

format_phone_number(number, cc) ==
    /\ ppc = "idle"
    /\ phone_number' = number
    /\ country_code' = cc
    /\ formatted' = FormatPhone(number, cc)
    /\ ppc' = "formatted"
    /\ UNCHANGED <<client, facadeVars, batchVars, aioVars, scopeVars>>

\* The inputs: a prefix, then the first n digits of 9876543210 98..., plain,
\* with a hyphen after the third character, or with a letter as last character
MaxDigits == 12

DigitString == <<"9", "8", "7", "6", "5", "4", "3", "2", "1", "0", "9", "8", "7", "6">>

Prefixes ==
    {<<>>, <<"+">>, <<"0">>, <<"9", "1">>, <<"1">>, <<"4", "4">>, <<"+", "9", "1">>,
     <<"+", "1">>, <<" ">>, <<"(">>}

Hyphenated(s) ==
    IF Len(s) > 3 THEN SubSeq(s, 1, 3) \o <<"-">> \o SubSeq(s, 4, Len(s)) ELSE s

Lettered(s) == IF s = <<>> THEN s ELSE SubSeq(s, 1, Len(s) - 1) \o <<"a">>

PhoneInputs ==
    LET plain == {pre \o SubSeq(DigitString, 1, n) :
                    pre \in Prefixes, n \in 0..(IF MaxDigits < 14 THEN MaxDigits ELSE 14)}
    IN  plain \cup {Hyphenated(s) : s \in plain} \cup {Lettered(s) : s \in plain}
        \cup {<<"1", "2", "3">>}

CountryCodes == {<<"+", "9", "1">>, <<"+", "1">>, <<"+", "4", "4">>}

---------------------------------------------------------------------------
(* with client: ...                                                        *)

MaxScopeOps == 2

NoScopeOp == [op |-> "none", resp |-> NoResponse, result |-> NoOutcome]

ScopeInit ==
    /\ spc = "before"
    /\ sops = 0
    /\ slast = NoScopeOp
    /\ spath = "none"
    /\ sexc = "none"
    /\ sprop = "none"

\* __enter__: returns self
scope_enter ==
    /\ spc = "before"
    /\ spc' = "inside"
    /\ UNCHANGED <<sops, slast, spath, sexc, sprop>>
    /\ UNCHANGED <<client, facadeVars, batchVars, aioVars, phoneVars>>

\* A facade operation called inside the block: it returns and the block goes
\* on, or it raises and the exception leaves the block
scope_operation(op, resp) ==
    /\ spc = "inside"
    /\ sops < MaxScopeOps
    /\ client.session = "open"
    /\ LET r == FacadeResult(op, resp)
       IN  /\ slast' = [op |-> op, resp |-> resp, result |-> r]
           /\ IF r.kind = "raised"
              THEN /\ spc' = "exiting"
                   /\ spath' = "exception"
                   /\ sexc' = r.exc
              ELSE UNCHANGED <<spc, spath, sexc>>
    /\ sops' = sops + 1
    /\ UNCHANGED sprop
    /\ UNCHANGED <<client, facadeVars, batchVars, aioVars, phoneVars>>

\* A return statement inside the block
scope_return ==
    /\ spc = "inside"
    /\ spc' = "exiting"
    /\ spath' = "return"
    /\ UNCHANGED <<sops, slast, sexc, sprop>>
    /\ UNCHANGED <<client, facadeVars, batchVars, aioVars, phoneVars>>

\* The block runs to its end
scope_end ==
    /\ spc = "inside"
    /\ spc' = "exiting"
    /\ spath' = "normal"
    /\ UNCHANGED <<sops, slast, sexc, sprop>>
    /\ UNCHANGED <<client, facadeVars, batchVars, aioVars, phoneVars>>

\* A variant of __exit__ that closes the session only when no exception is in flight
scope_exit_unless_exception ==
    /\ spc = "exiting"
    /\ client' = IF sexc = "none" THEN [client EXCEPT !.session = "closed"] ELSE client
    /\ sprop' = sexc
    /\ spc' = "left"
    /\ UNCHANGED <<sops, slast, spath, sexc>>
    /\ UNCHANGED <<facadeVars, batchVars, aioVars, phoneVars>>

\* __exit__(exc_type, exc_val, exc_tb): self.close(), i.e. session.close();
\* it returns None, so an exception in flight goes on to the caller
scope_exit ==
    /\ spc = "exiting"
    /\ client' = [client EXCEPT !.session = "closed"]
    /\ sprop' = sexc
    /\ spc' = "left"
    /\ UNCHANGED <<sops, slast, spath, sexc>>
    /\ UNCHANGED <<facadeVars, batchVars, aioVars, phoneVars>>

---------------------------------------------------------------------------
(* Specifications                                                          *)

ApiKeys == {"k1"}
BaseUrls == {<<"https://api.invorto.ai">>, <<"https://api.invorto.ai", "/">>}
TenantIds == {None, "", "t1"}

ClientInit ==
    \E k \in ApiKeys, u \in BaseUrls, t \in TenantIds : client = NewClient(k, u, t)

\* One facade invocation after another, blocking or _async
Init ==
    /\ ClientInit
    /\ FacadeInit
    /\ BatchInit
    /\ AioInit
    /\ PhoneInit
    /\ ScopeInit

Next ==
    \/ \E c \in AgentConfigs, m \in Modes : create_agent(c, m)
    \/ \E i \in Ids, m \in Modes : get_agent(i, m)
    \/ \E o \in {NoOptions} \cup {<<x>> : x \in ListOptionsSet}, m \in Modes : list_agents(o, m)
    \/ \E i \in Ids, u \in {[name |-> "bot2"], [locale |-> "hi-IN"]}, m \in Modes :
           update_agent(i, u, m)
    \/ \E i \in Ids, m \in Modes : delete_agent(i, m)
    \/ \E o \in CallOptionsSet, m \in Modes : create_call(o, m)
    \/ \E i \in Ids, m \in Modes : get_call(i, m)
    \/ \E o \in {NoOptions} \cup {<<x>> : x \in CallListOptionsSet}, m \in Modes :
           list_calls(o, m)
    \/ \E i \in Ids, st \in {"completed"}, md \in {None, "{}", "{k:v}"}, m \in Modes :
           update_call_status(i, st, md, m)
    \/ \E i \in Ids, m \in Modes : get_call_timeline(i, m)
    \/ \E i \in Ids, m \in Modes : get_call_artifacts(i, m)
    \/ \E t \in {"t1"}, p \in {"24h", "7d"}, m \in Modes : get_tenant_usage(t, p, m)
    \/ \E i \in Ids, m \in Modes : get_call_analytics(i, m)
    \/ \E m \in Modes : health_check(m)
    \/ \E m \in Modes : get_metrics(m)
    \/ session_request
    \/ facade_return
    \/ caller_continue

Spec == Init /\ [][Next]_vars

\* The batch helpers
NextBatch ==
    \/ \E l \in ListsOf(BatchConfigs) : create_multiple_agents(l)
    \/ \E l \in ListsOf(BatchCallOptions) : create_multiple_calls(l)
    \/ batch_create
    \/ batch_session_request
    \/ batch_create_return
    \/ batch_return

SpecBatch == Init /\ [][NextBatch]_vars

\* Two concurrent get_call_async calls.  The event loop and the threads of
\* the executor keep running, and a request that does not stall is answered.
NextAsync ==
    \/ \E i \in Tasks, id \in CallIds : get_call_async(i, id)
    \/ \E i \in Tasks : executor_start(i)
    \/ \E i \in Tasks : get_call_send(i)
    \/ \E i \in Tasks : remote_respond(i)
    \/ \E i \in Tasks : remote_stall(i)
    \/ \E i \in Tasks : get_call_return(i)
    \/ \E i \in Tasks : coroutine_resume(i)

FairAsync ==
    \A i \in Tasks :
        /\ WF_vars(\E id \in CallIds : get_call_async(i, id))
        /\ WF_vars(executor_start(i))
        /\ WF_vars(get_call_send(i))
        /\ WF_vars(remote_respond(i))
        /\ WF_vars(get_call_return(i))
        /\ WF_vars(coroutine_resume(i))

SpecAsync == Init /\ [][NextAsync]_vars /\ FairAsync

\* format_phone_number on some input
NextPhone ==
    \E number \in PhoneInputs, cc \in CountryCodes : format_phone_number(number, cc)

SpecPhone == Init /\ [][NextPhone]_vars

\* The client used as a context manager
NextScope ==
    \/ scope_enter
    \/ \E op \in Operations : \E r \in Responses(op, ServerAgentConfig) :
           scope_operation(op, r)
    \/ scope_return
    \/ scope_end
    \/ scope_exit

SpecScope == Init /\ [][NextScope]_vars

---------------------------------------------------------------------------
(* Properties of the request encoding                                      *)

Sent == pc # "idle"

\* The from-number of the options of a create_call or list_calls invocation
FromOf(i) ==
    IF i.op = "create_call" THEN i.arg.from_
    ELSE IF i.arg = NoOptions THEN None ELSE i.arg[1].from_

\* C1: the body of create_call and the query of list_calls carry the
\* from-number under the key "from" only, never under "from_"; when the
\* from-number is absent neither key is present.
FromOnlyUnderWireName ==
    (Sent /\ inv.op \in {"create_call", "list_calls"}) =>
        /\ "from_" \notin DOMAIN request.payload
        /\ IF FromOf(inv) = None
           THEN "from" \notin DOMAIN request.payload
           ELSE /\ "from" \in DOMAIN request.payload
                /\ request.payload["from"] = FromOf(inv)

\* list_agents or list_calls called with no options, or with options left at
\* their defaults
DefaultListing ==
    /\ Sent
    /\ inv.op \in {"list_agents", "list_calls"}
    /\ \/ inv.arg = NoOptions
       \/ inv.arg = <<Construct(IF inv.op = "list_agents" THEN ListOptionsDefaults
                                ELSE CallListOptionsDefaults, EmptyDict)>>

\* C2 as stated: a default listing sends exactly the keys page and limit.
DefaultListingSendsPageAndLimitOnly ==
    DefaultListing => DOMAIN request.payload = {"page", "limit"}

\* C2 as amended: a default listing sends exactly the three keys page, limit
\* and sort_order, with the values 1, 50 and "desc".
DefaultListingSendsPageLimitSortOrder ==
    DefaultListing =>
        request.payload = [page |-> "1", limit |-> "50", sort_order |-> "desc"]

DefaultListingWitness ==
    /\ DefaultListing
    /\ inv.op = "list_agents"
    /\ inv.arg = NoOptions
    /\ request.kind = "params"
    /\ "sort_order" \in DOMAIN request.payload

\* C3: the body of create_agent and create_call has no key whose value is
\* None: an absent field of the parameter object is omitted (under its name
\* and under its wire alias), a present one is emitted with its value.
AbsentOmittedPresentEmitted ==
    (Sent /\ inv.op \in {"create_agent", "create_call"}) =>
        /\ \A k \in DOMAIN request.payload : request.payload[k] # None
        /\ \A f \in DOMAIN inv.arg :
              IF inv.arg[f] = None
              THEN /\ f \notin DOMAIN request.payload
                   /\ f = "from_" => "from" \notin DOMAIN request.payload
              ELSE /\ f \in DOMAIN request.payload
                   /\ request.payload[f] = inv.arg[f]

AbsentOmittedWitness ==
    /\ pc = "sent"
    /\ inv.op = "create_call"
    /\ inv.arg.metadata = None
    /\ inv.arg.from_ = None
    /\ inv.arg.recording = "true"
    /\ "metadata" \notin DOMAIN request.payload
    /\ "recording" \in DOMAIN request.payload

\* create_agent returned an Agent decoded from a response whose config is
\* exactly the body that was sent
EchoedCreate ==
    /\ pc = "done"
    /\ inv.op = "create_agent"
    /\ outcome.kind = "returned"
    /\ response.body.config = request.payload

\* C9 as stated: after an exact echo the decoded config equals the original
\* AgentConfig field for field.
RoundTripExact == EchoedCreate => outcome.config = inv.arg

\* The AgentConfig c with each absent field replaced by its declared default
WithDefaults(c) ==
    [f \in DOMAIN c |->
        IF c[f] = None /\ f \in DOMAIN AgentConfigDefaults
        THEN AgentConfigDefaults[f] ELSE c[f]]

\* C9 as amended: after an exact echo the decoded config equals the original
\* with every absent field replaced by its declared default; it equals the
\* original exactly when no field with a non-absent default is absent in it.
RoundTripUpToDefaults ==
    EchoedCreate =>
        /\ outcome.config = WithDefaults(inv.arg)
        /\ outcome.config = inv.arg <=>
              \A f \in {"locale", "temperature", "model", "max_tokens"} : inv.arg[f] # None

RoundTripWitness ==
    /\ EchoedCreate
    /\ inv.arg.locale = None
    /\ inv.arg.temperature = "0.7"
    /\ outcome.config.locale = "en-IN"
    /\ outcome.config.voice = inv.arg.voice

---------------------------------------------------------------------------
(* Properties of one facade invocation                                     *)

Is2xx(status) == 200 <= status /\ status < 300

TransportLevel == {"HTTPError", "ConnectionError", "JSONDecodeError"}

\* A parsed JSON payload that does not fit the entity's schema
SchemaMismatch(entity, body) ==
    \/ body.kind = "array"
    \/ body.kind = "empty" /\ HasRequiredField(entity)

\* C6: for an operation that decodes into a typed entity, a non-2xx response
\* surfaces as a transport-level failure and never as a validation failure,
\* and a 2xx response whose payload does not match the schema surfaces as a
\* ValidationError and never as a transport-level failure.
FailureClassesDisjoint ==
    (pc = "done" /\ EntityOf[inv.op] \in TypedEntities /\ response.net = "ok") =>
        /\ ~Is2xx(response.status) =>
              outcome.kind = "raised" /\ outcome.exc \in TransportLevel
        /\ (Is2xx(response.status) /\ SchemaMismatch(EntityOf[inv.op], response.body)) =>
              outcome.kind = "raised" /\ outcome.exc = "ValidationError"

\* The request of the invocation failed: a network failure, an error status,
\* or a body that is not JSON where JSON is parsed
RequestFailed ==
    \/ response.net = "error"
    \/ response.net = "ok" /\ response.status >= 400
    \/ response.net = "ok" /\ response.body.kind = "notjson" /\ inv.op # "get_metrics"

---------------------------------------------------------------------------
(* Properties of the batch helpers                                         *)

Committed(r) == r.net = "ok" /\ Is2xx(r.status)

\* C4: the creates are issued one after another in the order of the input
\* list; when the create of element k fails the failure reaches the caller
\* at once: no request follows it, nothing but creates was ever requested
\* (the earlier elements stay created on the server) and no partial list is
\* returned.
BatchSequentialFailFast ==
    /\ \A j \in 1..Len(blog) :
          /\ blog[j].elem = j
          /\ blog[j].method = "POST"
          /\ blog[j].url = BatchUrl(bkind)
          /\ blog[j].payload = BatchPayload(bkind, bitems[j])
    /\ bpc \in {"waiting", "responded", "raised"} => Len(blog) = bidx
    /\ bpc = "loop" => Len(blog) = bidx - 1 /\ Len(bresults) = bidx - 1
    /\ \A j \in 1..Len(bresp) : Committed(bresp[j]) => j \in bserver
    /\ bpc = "raised" =>
          /\ bout.kind = "raised"
          /\ bout.value = <<>>
          /\ bout.exc = FacadeResult(BatchOp(bkind), bresp[bidx]).exc
          /\ \A j \in 1..(bidx - 1) :
                FacadeResult(BatchOp(bkind), bresp[j]).kind = "returned"
    /\ bpc = "returned" =>
          /\ bout.kind = "returned"
          /\ bout.value = bresults
          /\ Len(bresults) = Len(bitems)
          /\ \A j \in 1..Len(bitems) :
                bresults[j] = FacadeResult(BatchOp(bkind), bresp[j])
                /\ bresults[j].kind = "returned"
    /\ bpc \notin {"raised", "returned"} => bout.kind = "none"

BatchFailedMidwayWitness ==
    /\ bpc = "raised"
    /\ bkind = "agents"
    /\ Len(bitems) = 3
    /\ bidx = 2
    /\ Len(blog) = 2
    /\ bserver = {1}
    /\ bout.exc = "HTTPError"

---------------------------------------------------------------------------
(* Properties of the concurrent _async calls                               *)

\* The event loop's thread never runs a blocking call, and a future is only
\* ever completed with the result of the request for its own call ID
AsyncSafe ==
    /\ loop_busy = 0
    /\ \A i \in Tasks :
          /\ runner[i] # LoopThread
          /\ afuture[i].state \in {"resolved", "rejected"} =>
                /\ afuture[i].call = call_ids[i]
                /\ afuture[i].outcome = FacadeResult("get_call", aresp[i].resp)
                /\ afuture[i].state = "rejected" <=> afuture[i].outcome.kind = "raised"
          /\ task[i] = "done" => afuture[i].state \in {"resolved", "rejected"}

\* C5: two concurrent get_call_async calls for different call IDs resolve
\* independently: each future gets the outcome of its own request only, the
\* event loop is never blocked, and each call completes unless its own
\* request stalls, whatever happens to the other's.
ConcurrentCallsIndependent ==
    /\ []AsyncSafe
    /\ \A i \in Tasks : <>(task[i] = "done" \/ stalled[i])

OneStalledOtherDoneWitness ==
    /\ stalled[1]
    /\ task[1] = "awaiting"
    /\ afuture[1].state = "pending"
    /\ task[2] = "done"
    /\ afuture[2].state = "resolved"
    /\ call_ids[1] # call_ids[2]
    /\ finished = <<2>>

---------------------------------------------------------------------------
(* Properties of format_phone_number                                       *)

AllDigits(s) == \A k \in 1..Len(s) : s[k] \in Digits

\* The precedence the claim states, on the input string itself
ClaimedFormat(number, cc) ==
    IF startswith(number, <<"+">>) THEN number
    ELSE IF startswith(number, <<"0">>) THEN cc \o Tail(number)
    ELSE IF /\ AllDigits(number)
            /\ Len(number) = Len(cc) - 1 + 10
            /\ startswith(number, Tail(cc))
         THEN <<"+">> \o number
    ELSE IF AllDigits(number) /\ Len(number) = 10 THEN cc \o number
    ELSE number

\* A number written without separators: digits, with or without a leading '+'
PlainNumber(number) ==
    \/ AllDigits(number)
    \/ number # <<>> /\ number[1] = "+" /\ AllDigits(Tail(number))

\* C8: format_phone_number follows, for every input and every country code,
\* the precedence: '+' prefix -> unchanged; leading '0' -> stripped and the
\* country code prepended; the country code's digits followed by 10 digits
\* -> '+' prepended; exactly 10 digits -> country code prepended; anything
\* else -> unchanged.  Stated here for the inputs written without separators
\* or letters, on which the claim's rules need no reading.
FormatFollowsPrecedence ==
    (ppc = "formatted" /\ PlainNumber(phone_number)) =>
        formatted = ClaimedFormat(phone_number, country_code)

---------------------------------------------------------------------------
(* Properties of the context manager                                       *)

\* C10: the session is closed exactly when the with block is left, on every
\* exit path (end of the block, return, exception), and an exception raised
\* inside the block still reaches the caller.
ScopeReleasesSession ==
    /\ spc \in {"before", "inside", "exiting"} => client.session = "open"
    /\ spc = "left" =>
          /\ client.session = "closed"
          /\ sprop = sexc
          /\ spath \in {"normal", "return", "exception"}
          /\ spath = "exception" <=> sexc # "none"
          /\ spath = "exception" => sexc = slast.result.exc /\ slast.result.kind = "raised"

ScopeLeftByExceptionWitness ==
    /\ spc = "left"
    /\ spath = "exception"
    /\ sexc = "HTTPError"
    /\ sprop = "HTTPError"
    /\ sops = 2
    /\ client.session = "closed"

=============================================================================
